---- MODULE Spec2Model ----
(***************************************************************************)
(* S3FIFORocksDB (src/s3fifo_rocksdb.hpp): the three-queue cache built on  *)
(* three RocksDB instances, as a state machine over put and get.           *)
(*                                                                         *)
(* Each RocksDB instance is a map from key to value.  Keys are 1..NumKeys, *)
(* ordered as RocksDB's default bytewise comparator orders the key strings *)
(* (1 < 2 < ... stands for "A" < "B" < ...), so that Iterator::SeekToFirst *)
(* is the least key of the map.  Values are 1..NumVals, and EmptyValue is  *)
(* the empty string written to the ghost queue.                            *)
(*                                                                         *)
(* A std::atomic<uint64_t> counter u is represented by the integer n with  *)
(* u = n mod 2^64 and |n| small: -1 stands for 2^64 - 1, the value the     *)
(* counter wraps to when it is decremented at 0.                           *)
(*                                                                         *)
(* Every write call into RocksDB (Put, Delete) returns a Status; a call    *)
(* that returns a non-OK Status leaves its database unchanged.  Reads are *)
(* taken to succeed, and RocksDB's background FIFO compaction is not       *)
(* modelled.                                                               *)
(*                                                                         *)
(* The specifications:                                                     *)
(*   Spec            sequential callers, every backend write succeeds      *)
(*   SpecFault       sequential callers, the writes of puts may fail       *)
(*   SpecMoreFaults  one cache, the writes of puts and gets may fail       *)
(*   SpecAnyConfig   Spec over every configuration the constructor takes   *)
(*   SpecExample     the two tests of src/example.cpp                      *)
(*   SpecConcurrent  threads whose puts and gets interleave                *)
(***************************************************************************)
EXTENDS Integers, FiniteSets, Sequences, TLC

\* ---- bounds of the model ----
NumKeys == 3
NumVals == 2
MaxCapacity == 3
MaxGhostItems == 3
MaxFaults == 1
NumThreads == 2
MaxWrap == 1
MaxSmallItems == 2

\* ---- program constants ----
DEFAULT_VALUE_SIZE == 4096
MIN_ACCESS_COUNT == 2
AGE_THRESHOLD == 10000

Keys == 1..NumKeys
Values == 1..NumVals
EmptyValue == 0
NoKey == 0

\* small_ratio and ghost_ratio in percent: the defaults (0.1, 0.1) and (0.5, 0.5)
DefaultRatios == <<10, 10>>
Ratios == {DefaultRatios, <<50, 50>>}

\* arguments outside 0 < small_ratio < 1, 0 < ghost_ratio <= 1: 0.0, 1.0 and
\* 1.5.  (A negative ratio, or a small_ratio above 1, makes a product negative
\* and its conversion to size_t undefined: those are not drawn.)
OtherRatios == {<<0, 10>>, <<100, 10>>, <<10, 0>>, <<10, 150>>}

\* the write calls of the backend that may return a non-OK Status
FaultPoints == {"main_put", "small_put", "ghost_put", "main_delete", "small_delete"}

VARIABLES
    total_size_,      \* constructor argument total_size (bytes)
    small_ratio_,     \* constructor argument small_ratio, in percent
    ghost_ratio_,     \* constructor argument ghost_ratio, in percent
    small_db_,        \* S: key -> value
    main_db_,         \* M: key -> value
    ghost_db_,        \* G: key -> EmptyValue
    small_queue_items_,
    main_queue_items_,
    ghost_queue_items_,
    access_counts_,   \* std::unordered_map<std::string, int>
    access_tracker_,  \* std::unordered_map<std::string, AccessInfo>
    access_count_,    \* logical clock of quickDemotion
    last,             \* the operation that completed last, with its result
    lastPut,          \* per key, the value of the most recent put that returned OK
    failures,         \* the backend write calls that have failed so far
    main_fifo,        \* the keys of M in the order they entered M
    only_distinct_puts, \* every call so far was an OK put of a key not put before
    script,           \* the test of example.cpp that drives the cache, and its position
    threads           \* per calling thread: the call it is in and where it stands

cfg == <<total_size_, small_ratio_, ghost_ratio_>>
dbs == <<small_db_, main_db_, ghost_db_>>
counters == <<small_queue_items_, main_queue_items_, ghost_queue_items_>>
tracking == <<access_counts_, access_tracker_, access_count_>>
history == <<main_fifo, only_distinct_puts>>
vars ==
    <<cfg, dbs, counters, tracking, last, lastPut, failures, history, script,
      threads>>

\* ---- derived sizes (constructor's member initialisers) ----
\* static_cast<size_t>(total_size * ratio): the product truncated
small_size_ == (total_size_ * small_ratio_) \div 100
main_size_ == (total_size_ * (100 - small_ratio_)) \div 100
ghost_size_ == (total_size_ * ghost_ratio_) \div 100

getAverageValueSize == DEFAULT_VALUE_SIZE

\* the number of items the main queue's budget has room for
MainItems == main_size_ \div getAverageValueSize

\* ---- rocksdb::DB as a map ----
EmptyDb == [x \in {} |-> EmptyValue]

\* DB::Get(...).ok()
Contains(db, key) == key \in DOMAIN db

\* DbPut that inserts a new key but leaves the value of a key it holds
DbPut_KeepExisting(db, key, value, ok) ==
    IF ok /\ key \notin DOMAIN db
    THEN [x \in DOMAIN db \cup {key} |-> IF x = key THEN value ELSE db[x]]
    ELSE db

\* DB::Put: insert or overwrite; a failed call changes nothing
DbPut(db, key, value, ok) ==
    IF ok THEN [x \in DOMAIN db \cup {key} |-> IF x = key THEN value ELSE db[x]]
    ELSE db

\* DB::Delete: remove if present; a failed call changes nothing
DbDelete(db, key, ok) ==
    IF ok THEN [x \in DOMAIN db \ {key} |-> db[x]]
    ELSE db

\* Iterator::SeekToFirst then key(): the least key in comparator order
SeekToFirst(db) == CHOOSE x \in DOMAIN db : \A y \in DOMAIN db : x <= y

\* a decrement that takes two items off the counter
Dec_Twice(n) == n - 2

\* ++ and -- on std::atomic<uint64_t>
Inc(n) == n + 1
Dec(n) == n - 1

\* OverBudget that compares the item count with the byte budget
OverBudget_Unscaled(n, size) ==
    IF n < 0 THEN TRUE ELSE n > size

\* main_queue_items_ * getAverageValueSize() > main_size_ in 64-bit unsigned
\* arithmetic: a wrapped counter (n < 0) times 4096 is 2^64 - 4096*|n|
OverBudget(n, size) ==
    IF n < 0 THEN TRUE ELSE n * getAverageValueSize > size

\* the program state the handlers work on, as one record
State ==
    [small_db |-> small_db_, main_db |-> main_db_, ghost_db |-> ghost_db_,
     small_items |-> small_queue_items_, main_items |-> main_queue_items_,
     ghost_items |-> ghost_queue_items_,
     access_counts |-> access_counts_, access_tracker |-> access_tracker_,
     access_count |-> access_count_,
     failed |-> {}]

\* access_counts_[key]: operator[] of unordered_map.  The map is held as a total
\* function: operator[] default-inserts 0 for a key the map does not hold, and
\* nothing reads the map's key set, so an absent key and a key at 0 are one state
Count(ac, key) == ac[key]

\* evictFromMain that deletes the victim from M without recording it in G
evictFromMain_NoGhost(st, F) ==
    IF DOMAIN st.main_db = {} THEN st
    ELSE LET key == SeekToFirst(st.main_db)
             md_ok == "main_delete" \notin F
         IN  [st EXCEPT
                !.main_db = DbDelete(@, key, md_ok),
                !.main_items = Dec(@),
                !.failed = @ \cup (IF md_ok THEN {} ELSE {"main_delete"})]

\* evictFromMain that records the victim in G whether or not S holds it
evictFromMain_AlwaysGhost(st, F) ==
    IF DOMAIN st.main_db = {} THEN st
    ELSE LET key == SeekToFirst(st.main_db)
             gp_ok == "ghost_put" \notin F
             md_ok == "main_delete" \notin F
         IN  [st EXCEPT
                !.ghost_db = DbPut(@, key, EmptyValue, gp_ok),
                !.ghost_items = Inc(@),
                !.main_db = DbDelete(@, key, md_ok),
                !.main_items = Dec(@),
                !.failed = @ \cup (IF gp_ok THEN {} ELSE {"ghost_put"})
                             \cup (IF md_ok THEN {} ELSE {"main_delete"})]

\* ---- S3FIFORocksDB::evictFromMain ----
\* F: the write calls that fail during this operation
evictFromMain(st, F) ==
    IF DOMAIN st.main_db = {} THEN st
    ELSE LET key == SeekToFirst(st.main_db)
             toGhost == ~Contains(st.small_db, key)
             gp_ok == "ghost_put" \notin F
             md_ok == "main_delete" \notin F
         IN  [st EXCEPT
                !.ghost_db = IF toGhost THEN DbPut(@, key, EmptyValue, gp_ok) ELSE @,
                !.ghost_items = IF toGhost THEN Inc(@) ELSE @,
                !.main_db = DbDelete(@, key, md_ok),
                !.main_items = Dec(@),
                !.failed = @ \cup (IF toGhost /\ ~gp_ok THEN {"ghost_put"} ELSE {})
                             \cup (IF md_ok THEN {} ELSE {"main_delete"})]

\* updateSmall that leaves the small queue as it is
updateSmall_Skip(st, key, value, F) == st

\* put's "If in small queue, update it"
updateSmall(st, key, value, F) ==
    LET sp_ok == "small_put" \notin F
    IN  IF Contains(st.small_db, key)
        THEN [st EXCEPT !.small_db = DbPut(@, key, value, sp_ok),
                        !.failed = IF sp_ok THEN @ ELSE @ \cup {"small_put"}]
        ELSE st

\* admitFailed that counts the item although its insert failed
admitFailed_Counted(st) ==
    [st |-> [st EXCEPT !.main_items = Inc(@), !.failed = @ \cup {"main_put"}],
     status |-> "IOError"]

\* put's "if (!status.ok()) return status" after main_db_->Put
admitFailed(st) ==
    [st |-> [st EXCEPT !.failed = @ \cup {"main_put"}], status |-> "IOError"]

\* ---- S3FIFORocksDB::put ----
put(st, key, value, F) ==
    IF "main_put" \in F
    THEN admitFailed(st)
    ELSE LET s1 == [st EXCEPT !.main_db = DbPut(@, key, value, TRUE),
                              !.main_items = Inc(@)]
             inSmall == Contains(s1.small_db, key)
             sp_ok == "small_put" \notin F
             s2 == updateSmall(s1, key, value, F)
             s3 == IF OverBudget(s2.main_items, main_size_)
                   THEN evictFromMain(s2, F)
                   ELSE s2
         IN  [st |-> s3,
              status |-> IF inSmall /\ ~sp_ok THEN "IOError" ELSE "OK"]

\* shouldPromoteToSmall that takes the slow path on the draw alone, whatever
\* the access count of the key
shouldPromoteToSmall_AnyDraw(st, key, draw) ==
    IF Contains(st.ghost_db, key)
    THEN [st |-> st, promote |-> TRUE, ghost_hit |-> TRUE]
    ELSE [st |-> st, promote |-> draw, ghost_hit |-> FALSE]

\* ---- S3FIFORocksDB::shouldPromoteToSmall ----
\* draw: rand() / RAND_MAX < 0.01 at this call
shouldPromoteToSmall(st, key, draw) ==
    IF Contains(st.ghost_db, key)
    THEN [st |-> st, promote |-> TRUE, ghost_hit |-> TRUE]
    ELSE [st |-> st,
          promote |-> Count(st.access_counts, key) > 1 /\ draw,
          ghost_hit |-> FALSE]

\* ---- S3FIFORocksDB::quickDemotion ----
quickDemotion(st, key, F) ==
    IF key \notin DOMAIN st.access_tracker THEN st
    ELSE LET info == st.access_tracker[key]
             current_time == Inc(st.access_count)
             age == current_time - info.last_access
             s1 == [st EXCEPT !.access_count = current_time]
             mp_ok == "main_put" \notin F
             sd_ok == "small_delete" \notin F
         IN  IF (age < 0 \/ age > AGE_THRESHOLD
                 \/ info.count < 0 \/ info.count < MIN_ACCESS_COUNT)
                /\ Contains(s1.small_db, key)
             THEN [s1 EXCEPT
                     !.main_db = DbPut(@, key, s1.small_db[key], mp_ok),
                     !.small_db = DbDelete(@, key, sd_ok),
                     !.small_items = Dec(@),
                     !.main_items = Inc(@),
                     !.failed = @ \cup (IF mp_ok THEN {} ELSE {"main_put"})
                                  \cup (IF sd_ok THEN {} ELSE {"small_delete"})]
             ELSE s1

\* getMiss that admits the key into the small queue, as handleCacheMiss does
getMiss_Insert(st, key) ==
    [st |-> [st EXCEPT !.small_db = DbPut(@, key, EmptyValue, TRUE),
                       !.small_items = Inc(@)],
     status |-> "NotFound", value |-> EmptyValue, hit |-> "none",
     ghost_hit |-> FALSE, promote |-> FALSE]

\* get's cache miss: the key is in neither S nor M
getMiss(st, key) ==
    [st |-> st, status |-> "NotFound", value |-> EmptyValue, hit |-> "none",
     ghost_hit |-> FALSE, promote |-> FALSE]

\* ---- S3FIFORocksDB::get ----
\* value: what *value holds on return (EmptyValue: left untouched)
\* hit: the queue that served the read
get(st, key, draw, F) ==
    IF Contains(st.small_db, key)
    THEN [st |-> quickDemotion(st, key, F), status |-> "OK",
          value |-> st.small_db[key], hit |-> "S",
          ghost_hit |-> FALSE, promote |-> FALSE]
    ELSE IF Contains(st.main_db, key)
    THEN LET value == st.main_db[key]
             d == shouldPromoteToSmall(st, key, draw)
             sp_ok == "small_put" \notin F
             md_ok == "main_delete" \notin F
             s1 == IF d.promote
                   THEN [d.st EXCEPT
                           !.small_db = DbPut(@, key, value, sp_ok),
                           !.main_db = DbDelete(@, key, md_ok),
                           !.small_items = Inc(@),
                           !.main_items = Dec(@),
                           !.failed = @ \cup (IF sp_ok THEN {} ELSE {"small_put"})
                                        \cup (IF md_ok THEN {} ELSE {"main_delete"})]
                   ELSE d.st
         IN  [st |-> s1, status |-> "OK", value |-> value, hit |-> "M",
              ghost_hit |-> d.ghost_hit, promote |-> d.promote]
    ELSE getMiss(st, key)

\* ---- the state machine ----
\* op, key, value: the call; status, result: what it returned; evicted: the key
\* a put's eviction deleted from M; fault: a write call failed during it; hit,
\* ghost_hit, promote: the path a get took; draw: the random draw of a get that
\* found its key in M and not in G; repeat: the call right before was a get
\* of the same key that also found it in M and not in G; put_before: the value written
\* by the call right before a get, when that was an OK put of the same key whose
\* eviction did not delete it; overwrote: that put (or, in a put's record, the
\* put itself) replaced another value the key had in M; reput: an OK put of a
\* key that was in G and in neither M nor S (or, in a get's record, the call
\* right before was such a put of the same key); insert_failed: the call's
\* insert of its key failed (main_db_->Put of a put, small_db_->Put of a
\* promoting get); oldest: the key that entered M first among the keys M held
\* when the put checked its size limit
NoOp == [op |-> "none", key |-> NoKey, value |-> EmptyValue, status |-> "OK",
         result |-> EmptyValue, evicted |-> NoKey, fault |-> FALSE, hit |-> "none",
         ghost_hit |-> FALSE, promote |-> FALSE, draw |-> FALSE, repeat |-> FALSE,
         put_before |-> EmptyValue, overwrote |-> FALSE, reput |-> FALSE,
         insert_failed |-> FALSE, oldest |-> NoKey]

\* a thread that is in no call.  pc: the statement the thread executes next;
\* op, key: the call it is in or has returned from; value: the argument of a
\* put, the value a get has read; victim: the key its eviction took from the
\* iterator; status, result: what its last call returned; expect: the value its
\* own put of key wrote, while no eviction has deleted key and no other
\* thread has been in a put of key since that put began (EmptyValue otherwise)
Idle == [pc |-> "idle", op |-> "none", key |-> NoKey, value |-> EmptyValue,
         victim |-> NoKey, status |-> "OK", result |-> EmptyValue,
         expect |-> EmptyValue]

Threads == 1..NumThreads

\* the members after construction over empty directories, for callers that
\* use the keys in keys
Constructed(keys) ==
    /\ threads = [t \in Threads |-> Idle]
    /\ small_db_ = EmptyDb
    /\ main_db_ = EmptyDb
    /\ ghost_db_ = EmptyDb
    /\ small_queue_items_ = 0
    /\ main_queue_items_ = 0
    /\ ghost_queue_items_ = 0
    /\ access_counts_ = [x \in keys |-> 0]
    /\ access_tracker_ = [x \in {} |-> [count |-> 0, last_access |-> 0]]
    /\ access_count_ = 0
    /\ last = NoOp
    /\ lastPut = [k \in keys |-> EmptyValue]
    /\ failures = 0
    /\ main_fifo = <<>>
    /\ only_distinct_puts = TRUE

\* no test of example.cpp runs: the callers are free
NoScript == [name |-> "none", pc |-> 0, scan |-> 0, draw |-> FALSE]

\* a cache constructed with a total size of 1..MaxCapacity items and ratios
\* the spec admits
Init ==
    /\ total_size_ \in {c * DEFAULT_VALUE_SIZE : c \in 1..MaxCapacity}
    /\ \E r \in Ratios : small_ratio_ = r[1] /\ ghost_ratio_ = r[2]
    /\ Constructed(Keys)
    /\ script = NoScript

\* a cache constructed with any arguments the constructor accepts: it throws
\* only when rocksdb::DB::Open fails
InitAnyConfig ==
    /\ total_size_ \in {c * DEFAULT_VALUE_SIZE : c \in 0..MaxCapacity}
    /\ \E r \in Ratios \cup OtherRatios : small_ratio_ = r[1] /\ ghost_ratio_ = r[2]
    /\ Constructed(Keys)
    /\ script = NoScript

Store(st) ==
    /\ small_db_' = st.small_db
    /\ main_db_' = st.main_db
    /\ ghost_db_' = st.ghost_db
    /\ small_queue_items_' = st.small_items
    /\ main_queue_items_' = st.main_items
    /\ ghost_queue_items_' = st.ghost_items
    /\ access_counts_' = st.access_counts
    /\ access_tracker_' = st.access_tracker
    /\ access_count_' = st.access_count

\* the key this put's eviction deleted from M, NoKey if none
Evicted(before, after) ==
    LET gone == DOMAIN before \ DOMAIN after
    IN  IF gone = {} THEN NoKey ELSE CHOOSE x \in gone : TRUE

\* the order of entry into M, after a call that left M with the keys in keys:
\* the keys that left M are dropped, the key that entered is appended
Arrival(order, keys) ==
    LET kept == SelectSeq(order, LAMBDA x : x \in keys)
        new == keys \ {kept[i] : i \in DOMAIN kept}
    IN  IF new = {} THEN kept ELSE Append(kept, CHOOSE x \in new : TRUE)

\* cache.put(key, value), the write calls in F failing: exactly the calls of F
\* are made and fail
PutOp(key, value, F) ==
    LET r == put(State, key, value, F)
        entered == Arrival(main_fifo, DOMAIN main_db_ \cup {key})
    IN  /\ r.st.failed = F
        /\ failures' = failures + Cardinality(F)
        /\ Store(r.st)
        /\ last' = [NoOp EXCEPT !.op = "put", !.key = key, !.value = value,
                                !.status = r.status, !.fault = (F # {}),
                                !.overwrote = /\ r.status = "OK"
                                              /\ Contains(main_db_, key)
                                              /\ main_db_[key] # value,
                                !.evicted = IF "main_put" \in F THEN NoKey
                                            ELSE Evicted(DbPut(main_db_, key, value, TRUE),
                                                         r.st.main_db),
                                !.reput = /\ r.status = "OK"
                                          /\ Contains(ghost_db_, key)
                                          /\ ~Contains(main_db_, key)
                                          /\ ~Contains(small_db_, key),
                                !.insert_failed = ("main_put" \in F),
                                !.oldest = IF "main_put" \in F THEN NoKey
                                           ELSE Head(entered)]
        /\ main_fifo' = Arrival(main_fifo, DOMAIN r.st.main_db)
        /\ only_distinct_puts' = /\ only_distinct_puts
                                 /\ r.status = "OK"
                                 /\ lastPut[key] = EmptyValue
        /\ UNCHANGED threads
        /\ lastPut' = IF r.status = "OK" THEN [lastPut EXCEPT ![key] = value]
                      ELSE lastPut
        /\ UNCHANGED cfg

\* cache.get(key, &value), the write calls in F failing.  draw is what the
\* random source yields at this call; it is drawn only for a get that finds
\* its key in M and not in G, no other get reaches the comparison with it
GetOp(key, draw, F) ==
    LET r == get(State, key, draw, F)
        plain == r.hit = "M" /\ ~r.ghost_hit
        repeat == /\ plain
                  /\ last.op = "get" /\ last.key = key
                  /\ last.hit = "M" /\ ~last.ghost_hit
        put_before == IF last.op = "put" /\ last.key = key /\ last.status = "OK"
                         /\ last.evicted # key
                      THEN last.value ELSE EmptyValue
    IN  /\ r.st.failed = F
        /\ draw => plain
        /\ failures' = failures + Cardinality(F)
        /\ Store(r.st)
        /\ last' = [NoOp EXCEPT !.op = "get", !.key = key, !.status = r.status,
                                !.result = r.value, !.fault = (F # {}),
                                !.hit = r.hit, !.ghost_hit = r.ghost_hit,
                                !.promote = r.promote, !.draw = draw,
                                !.repeat = repeat, !.put_before = put_before,
                                !.overwrote = /\ put_before # EmptyValue
                                              /\ last.overwrote,
                                !.reput = /\ last.op = "put" /\ last.key = key
                                          /\ last.reput,
                                !.insert_failed = /\ r.promote
                                                  /\ "small_put" \in F]
        /\ main_fifo' = Arrival(main_fifo, DOMAIN r.st.main_db)
        /\ only_distinct_puts' = FALSE
        /\ UNCHANGED <<cfg, lastPut, threads>>

\* the calls of free callers.  ghost_queue_items_ only grows: MaxGhostItems
\* caps it
Put ==
    \E key \in Keys, value \in Values :
        /\ PutOp(key, value, {})
        /\ ghost_queue_items_' <= MaxGhostItems
        /\ UNCHANGED script
Get ==
    \E key \in Keys, draw \in BOOLEAN :
        GetOp(key, draw, {}) /\ UNCHANGED script
\* a put, a get during which write calls fail, at most budget in the run
FaultyPut(budget) ==
    \E key \in Keys, value \in Values, F \in (SUBSET FaultPoints) \ {{}} :
        /\ failures + Cardinality(F) <= budget
        /\ PutOp(key, value, F)
        /\ ghost_queue_items_' <= MaxGhostItems
        /\ UNCHANGED script
FaultyGet(budget) ==
    \E key \in Keys, draw \in BOOLEAN, F \in (SUBSET FaultPoints) \ {{}} :
        /\ failures + Cardinality(F) <= budget
        /\ GetOp(key, draw, F)
        /\ UNCHANGED script
PutFault == FaultyPut(MaxFaults)

Next == Put \/ Get
NextFault == Put \/ Get \/ PutFault

\* sequential callers, every backend write succeeds
Spec == Init /\ [][Next]_vars
\* sequential callers, the backend writes of the puts may fail.  (A get calls
\* the backend to write only when it promotes, and no get promotes unless a
\* write has failed before it: the failing writes of gets are those of
\* SpecMoreFaults.)
SpecFault == Init /\ [][NextFault]_vars

\* sequential callers over a cache of two items with the default ratios, the
\* backend writes of puts and gets may fail, one failure more
InitTwoItems ==
    /\ Init
    /\ total_size_ = 2 * DEFAULT_VALUE_SIZE
    /\ <<small_ratio_, ghost_ratio_>> = DefaultRatios
NextMoreFaults ==
    Put \/ Get \/ FaultyPut(MaxFaults + 1) \/ FaultyGet(MaxFaults + 1)
SpecMoreFaults == InitTwoItems /\ [][NextMoreFaults]_vars

\* sequential callers of a cache constructed with any arguments
SpecAnyConfig == InitAnyConfig /\ [][Next]_vars

\* ---- example.cpp: runPaperExample and runScanResistanceTest ----
\* a key string is the sequence of its bytes
Letter(i) == <<64 + i>>
to_string(i) == IF i < 10 THEN <<48 + i>> ELSE <<48 + (i \div 10), 48 + (i % 10)>>
ScanName(i) == <<88>> \o to_string(i)

\* the order of rocksdb::BytewiseComparator on two key strings
BytewiseLess(s, t) ==
    \/ \E i \in 1..Len(s) :
          /\ i <= Len(t) /\ s[i] < t[i]
          /\ \A j \in 1..(i - 1) : s[j] = t[j]
    \/ Len(s) < Len(t) /\ \A j \in 1..Len(s) : s[j] = t[j]

\* the tests' numbers
ExampleItems == 10
OBJECT_SIZE == 1048576
HotRounds == 3
ScanLength == 20

PaperNames == {Letter(i) : i \in 1..(ExampleItems + 1)}
ScanNames == {Letter(i) : i \in 1..HotRounds} \cup {ScanName(i) : i \in 1..ScanLength}
Names(name) == IF name = "paper" THEN PaperNames ELSE ScanNames

\* the model's key for a key string: its place in comparator order among the
\* key strings of its test
KeyOf(s, names) == 1 + Cardinality({t \in names : BytewiseLess(t, s)})

\* one call of a test; stop: the test ends if this get does not return OK
PutOf(s, value) == [op |-> "put", name |-> s, value |-> value, stop |-> FALSE]
GetOf(s, stop) == [op |-> "get", name |-> s, value |-> EmptyValue, stop |-> stop]

\* "value" + key, and "scan_value"
ValueOf(s, names) == KeyOf(s, names)
ScanValue == Cardinality(ScanNames) + 1

\* runPaperExample: put A, B, C; get A; put D..J; put K; get K, A, J
PaperPuts ==
    [i \in 1..(ExampleItems + 2) |->
        IF i < 4 THEN PutOf(Letter(i), ValueOf(Letter(i), PaperNames))
        ELSE IF i = 4 THEN GetOf(Letter(1), FALSE)
        ELSE PutOf(Letter(i - 1), ValueOf(Letter(i - 1), PaperNames))]
PaperScript ==
    PaperPuts \o <<GetOf(Letter(ExampleItems + 1), FALSE), GetOf(Letter(1), FALSE),
                   GetOf(Letter(ExampleItems), FALSE)>>

\* runScanResistanceTest: HotRounds times put and get of A, B, C; then put
\* X1..Xn; then get A, B, C until one fails
HotPhase ==
    [j \in 1..(2 * HotRounds * HotRounds) |->
        LET s == Letter((((j - 1) \div 2) % HotRounds) + 1)
        IN  IF j % 2 = 1 THEN PutOf(s, ValueOf(s, ScanNames)) ELSE GetOf(s, FALSE)]
ScanScript(n) ==
    HotPhase \o [i \in 1..n |-> PutOf(ScanName(i), ScanValue)]
             \o [i \in 1..HotRounds |-> GetOf(Letter(i), TRUE)]

Ops == IF script.name = "paper" THEN PaperScript ELSE ScanScript(script.scan)

\* example.cpp's caches: 10 objects of OBJECT_SIZE, and the same for objects of
\* the average value size; draw: what the random source yields in this run
InitExample ==
    /\ total_size_ \in {ExampleItems * OBJECT_SIZE, ExampleItems * DEFAULT_VALUE_SIZE}
    /\ small_ratio_ = DefaultRatios[1]
    /\ ghost_ratio_ = DefaultRatios[2]
    /\ \E name \in {"paper", "scan"}, n \in 0..ScanLength, draw \in BOOLEAN :
          /\ name = "paper" => n = 0
          /\ script = [name |-> name, pc |-> 0, scan |-> n, draw |-> draw]
          /\ Constructed(1..Cardinality(Names(name)))

\* the next call of the running test
ScriptPut ==
    /\ script.pc < Len(Ops)
    /\ LET c == Ops[script.pc + 1]
       IN  /\ c.op = "put"
           /\ PutOp(KeyOf(c.name, Names(script.name)), c.value, {})
           /\ script' = [script EXCEPT !.pc = @ + 1]
ScriptGet ==
    /\ script.pc < Len(Ops)
    /\ LET c == Ops[script.pc + 1]
           key == KeyOf(c.name, Names(script.name))
           r == get(State, key, script.draw, {})
           draw == script.draw /\ r.hit = "M" /\ ~r.ghost_hit
       IN  /\ c.op = "get"
           /\ GetOp(key, draw, {})
           /\ script' = [script EXCEPT
                            !.pc = IF c.stop /\ r.status # "OK" THEN Len(Ops)
                                   ELSE @ + 1]

NextExample == ScriptPut \/ ScriptGet
SpecExample == InitExample /\ [][NextExample]_vars

\* ---- concurrent callers ----
\* put and get take no lock (only shouldPromoteToSmall and quickDemotion hold
\* tracker_mutex_), so the calls of two threads interleave between any two
\* backend calls.  A step is one backend write with the counter updates next
\* to it, or the reads that lead up to the next write.  The backend calls
\* succeed.
Sequential == <<last, lastPut, failures, history, script>>

\* thread t returns.  What the call was and what it returned is kept while
\* the thread expects a value of its key
Return(t, status, result) ==
    IF threads[t].expect = EmptyValue THEN Idle
    ELSE [threads[t] EXCEPT !.pc = "idle", !.status = status, !.result = result,
                            !.value = EmptyValue, !.victim = NoKey]

\* the threads other than t lose what they expect of key
Forget(ths, t, key) ==
    [u \in Threads |->
        IF u # t /\ ths[u].key = key
        THEN IF ths[u].pc = "idle" THEN Idle
             ELSE [ths[u] EXCEPT !.expect = EmptyValue]
        ELSE ths[u]]

\* put: main_db_->Put(key, value); main_queue_items_++.  The counter drifts
\* upwards when evictions find M empty: it is capped at one item over the
\* budget for every thread
PutMain(t, key, value) ==
    LET busy == \E u \in Threads \ {t} :
                    /\ threads[u].pc # "idle" /\ threads[u].op = "put"
                    /\ threads[u].key = key
        me == [Idle EXCEPT !.pc = "put_small", !.op = "put", !.key = key,
                           !.value = value,
                           !.expect = IF busy THEN EmptyValue ELSE value]
    IN  /\ threads[t].pc = "idle"
        /\ main_db_' = DbPut(main_db_, key, value, TRUE)
        /\ main_queue_items_' = Inc(main_queue_items_)
        /\ main_queue_items_' <= MainItems + NumThreads
        /\ threads' = Forget([threads EXCEPT ![t] = me], t, key)
        /\ UNCHANGED <<cfg, small_db_, ghost_db_, small_queue_items_,
                       ghost_queue_items_, tracking, Sequential>>

\* put: if small_db_->Get(key).ok() then small_db_->Put(key, value)
PutSmall(t) ==
    LET me == threads[t]
    IN  /\ me.pc = "put_small"
        /\ small_db_' = IF Contains(small_db_, me.key)
                         THEN DbPut(small_db_, me.key, me.value, TRUE)
                         ELSE small_db_
        /\ threads' = [threads EXCEPT ![t].pc = "put_check"]
        /\ UNCHANGED <<cfg, main_db_, ghost_db_, counters, tracking, Sequential>>

\* put: the size check, and evictFromMain up to it->key()
PutCheck(t) ==
    LET me == threads[t]
        evict == OverBudget(main_queue_items_, main_size_) /\ DOMAIN main_db_ # {}
    IN  /\ me.pc = "put_check"
        /\ threads' =
              [threads EXCEPT ![t] =
                  IF evict
                  THEN [me EXCEPT !.pc = "evict_ghost",
                                  !.victim = SeekToFirst(main_db_)]
                  ELSE Return(t, "OK", EmptyValue)]
        /\ UNCHANGED <<cfg, dbs, counters, tracking, Sequential>>

\* evictFromMain: if the victim is not in small_db_, ghost_db_->Put(victim, "")
\* and ghost_queue_items_++
EvictGhost(t) ==
    LET me == threads[t]
        toGhost == ~Contains(small_db_, me.victim)
    IN  /\ me.pc = "evict_ghost"
        /\ ghost_db_' = IF toGhost THEN DbPut(ghost_db_, me.victim, EmptyValue, TRUE)
                         ELSE ghost_db_
        /\ ghost_queue_items_' = IF toGhost THEN Inc(ghost_queue_items_)
                                  ELSE ghost_queue_items_
        /\ ghost_queue_items_' <= MaxGhostItems
        /\ threads' = [threads EXCEPT ![t].pc = "evict_delete"]
        /\ UNCHANGED <<cfg, small_db_, main_db_, small_queue_items_,
                       main_queue_items_, tracking, Sequential>>

\* evictFromMain: main_db_->Delete(victim); main_queue_items_--; put returns.
\* An eviction that deletes a key from M ends what any thread expects of it
EvictDelete(t) ==
    LET me == threads[t]
        deleted == Contains(main_db_, me.victim)
        after == [threads EXCEPT ![t] =
                    IF deleted /\ me.victim = me.key THEN Idle
                    ELSE Return(t, "OK", EmptyValue)]
    IN  /\ me.pc = "evict_delete"
        /\ main_db_' = DbDelete(main_db_, me.victim, TRUE)
        /\ main_queue_items_' = Dec(main_queue_items_)
        /\ main_queue_items_' >= 0 - MaxWrap
        /\ threads' = IF deleted THEN Forget(after, t, me.victim) ELSE after
        /\ UNCHANGED <<cfg, small_db_, ghost_db_, small_queue_items_,
                       ghost_queue_items_, tracking, Sequential>>

\* get: small_db_->Get(key, value); on a hit quickDemotion(key) and return.
\* expect is kept by a get of the key the thread has just put
GetSmall(t, key) ==
    LET old == threads[t]
        me == [Idle EXCEPT !.pc = "get_main", !.op = "get", !.key = key,
                           !.expect = IF old.op = "put" /\ old.key = key
                                      THEN old.expect ELSE EmptyValue]
        hit == Contains(small_db_, key)
        st == quickDemotion(State, key, {})
    IN  /\ old.pc = "idle"
        /\ threads' = [threads EXCEPT ![t] =
                          IF ~hit THEN me
                          ELSE IF me.expect = EmptyValue THEN Idle
                          ELSE [me EXCEPT !.pc = "idle", !.result = small_db_[key]]]
        /\ IF hit THEN Store(st) ELSE UNCHANGED <<dbs, counters, tracking>>
        /\ UNCHANGED <<cfg, Sequential>>

\* get: main_db_->Get(key, value) and, on a hit, shouldPromoteToSmall(key)
GetMain(t) ==
    LET me == threads[t]
        hit == Contains(main_db_, me.key)
    IN  /\ me.pc = "get_main"
        /\ \E draw \in BOOLEAN :
              LET d == shouldPromoteToSmall(State, me.key, draw)
              IN  /\ draw => (hit /\ ~d.ghost_hit)
                  /\ threads' =
                        [threads EXCEPT ![t] =
                            IF ~hit THEN Return(t, "NotFound", EmptyValue)
                            ELSE IF d.promote
                            THEN [me EXCEPT !.pc = "promote_put",
                                            !.value = main_db_[me.key]]
                            ELSE Return(t, "OK", main_db_[me.key])]
        /\ UNCHANGED <<cfg, dbs, counters, tracking, Sequential>>

\* get: small_db_->Put(key, *value)
PromotePut(t) ==
    LET me == threads[t]
    IN  /\ me.pc = "promote_put"
        /\ small_db_' = DbPut(small_db_, me.key, me.value, TRUE)
        /\ threads' = [threads EXCEPT ![t].pc = "promote_delete"]
        /\ UNCHANGED <<cfg, main_db_, ghost_db_, counters, tracking, Sequential>>

\* get: main_db_->Delete(key); small_queue_items_++; main_queue_items_--;
\* return OK
PromoteDelete(t) ==
    LET me == threads[t]
    IN  /\ me.pc = "promote_delete"
        /\ main_db_' = DbDelete(main_db_, me.key, TRUE)
        /\ small_queue_items_' = Inc(small_queue_items_)
        /\ main_queue_items_' = Dec(main_queue_items_)
        /\ small_queue_items_' <= MaxSmallItems
        /\ main_queue_items_' >= 0 - MaxWrap
        /\ threads' = [threads EXCEPT ![t] = Return(t, "OK", me.value)]
        /\ UNCHANGED <<cfg, small_db_, ghost_db_, ghost_queue_items_, tracking,
                       Sequential>>

\* the keys the threads call put and get with: as many keys as threads
ContendedKeys == {k \in Keys : k <= NumThreads}

NextConcurrent ==
    \E t \in Threads :
        \/ \E key \in ContendedKeys, value \in Values : PutMain(t, key, value)
        \/ PutSmall(t)
        \/ PutCheck(t)
        \/ EvictGhost(t)
        \/ EvictDelete(t)
        \/ \E key \in ContendedKeys : GetSmall(t, key)
        \/ GetMain(t)
        \/ PromotePut(t)
        \/ PromoteDelete(t)

\* NumThreads threads calling put and get on a cache of two items
SpecConcurrent == InitTwoItems /\ [][NextConcurrent]_vars

\* ---- the queues as key sets ----
S == DOMAIN small_db_
M == DOMAIN main_db_
G == DOMAIN ghost_db_

\* a queue's footprint as the spec measures it: item count times average value size
Footprint(keys) == Cardinality(keys) * getAverageValueSize

\* ======================= claims =======================

\* C1: after every completed put or get no key is present in both S and M.
\* Stated on the operations: a put or get whose backend calls all succeed never
\* takes the cache from a state where no key is in both S and M to a state
\* where some key is (in a cache whose main queue has room for an item).
C1_NoKeyInSmallAndMain ==
    [][(main_size_ >= getAverageValueSize /\ S \cap M = {} /\ ~last'.fault)
        => (S' \cap M' = {})]_vars

\* C2: when get(k) finds k in M while k is in G (a ghost hit), then on return
\* k is in S, not in M and not in G.  Stated for the gets whose backend calls
\* all succeed, in a cache whose main queue has room for an item.
C2_GhostHitMovesKey ==
    (main_size_ >= getAverageValueSize
     /\ last.op = "get" /\ last.ghost_hit /\ ~last.fault)
        => (last.key \in S /\ last.key \notin M /\ last.key \notin G)

C4_SmallWithinBudget ==
    main_size_ >= getAverageValueSize => Footprint(S) <= small_size_

\* C5: after every completed operation the number of keys in G is within
\* ghost_size (item count times average value size): a main eviction that takes
\* G over its budget drops G's oldest key.  Stated for the caches whose ghost
\* queue has room for at least one item.
C5_GhostWithinBudget ==
    ghost_size_ >= getAverageValueSize => Footprint(G) <= ghost_size_

\* C6: put(k, v) immediately followed by get(k) returns OK with value v,
\* provided the put returned OK and its eviction did not remove k.
C6_RoundTrip ==
    (last.op = "get" /\ last.put_before # EmptyValue)
        => (last.status = "OK" /\ last.result = last.put_before)

\* C6 witness: a get right after a put of its key that overwrote another value
\* returned the value just put
C6_Witness ==
    /\ last.op = "get" /\ last.put_before # EmptyValue
    /\ last.status = "OK" /\ last.result = last.put_before
    /\ last.hit = "M" /\ last.overwrote

\* C7: a get(k) that returns OK returns the value of the most recent put(k, .)
\* that returned OK, whether k resides in S or in M or was promoted between
\* the puts.
C7_Overwrite ==
    (last.op = "get" /\ last.status = "OK") => last.result = lastPut[last.key]

\* C7 witness: k was put, promoted to S, put again while in S, and the get
\* right after that put is served from S with the value of the last put
C7_Witness ==
    /\ last.op = "get" /\ last.status = "OK" /\ last.hit = "S"
    /\ last.put_before # EmptyValue
    /\ last.result = lastPut[last.key]

\* C8: a get(k) for a key k in neither S nor M returns NOT_FOUND and changes
\* neither the contents of S, M and G nor the three item counters.
C8_MissChangesNothing ==
    [][(last'.op = "get" /\ last'.key \notin S /\ last'.key \notin M)
        => (last'.status = "NotFound" /\ UNCHANGED <<dbs, counters>>)]_vars

\* C8 witness: a get missed while the cache held other keys
C8_Witness ==
    /\ last.op = "get" /\ last.status = "NotFound"
    /\ last.key \notin S /\ last.key \notin M
    /\ M # {}

\* the access count the code keeps for a key, in either of its two structures
TrackedCount(tracker, key) ==
    IF key \in DOMAIN tracker THEN tracker[key].count ELSE 0

\* C9: each get(k) that returns OK raises the access count of k by exactly
\* one (in access_counts_ or in access_tracker_).
C9_ReadCounts ==
    [][(last'.op = "get" /\ last'.status = "OK")
        => \/ Count(access_counts_', last'.key) = Count(access_counts_, last'.key) + 1
           \/ TrackedCount(access_tracker_', last'.key)
                = TrackedCount(access_tracker_, last'.key) + 1]_vars

\* C10: a get(k) on a key in M and not in G whose access count is above 1 and
\* whose draw succeeds promotes k, and repeated gets of a key in M reach that
\* promotion.  Stated on the second of two gets of k in a row that both find
\* k in M and not in G: k has then been read twice, and if the draw succeeds
\* k is in S and not in M afterwards.
C10_SlowPromotion ==
    (last.op = "get" /\ last.repeat /\ last.draw /\ ~last.fault)
        => (last.key \in S /\ last.key \notin M)

C12_GhostHitAfterReinsert ==
    [][main_size_ >= getAverageValueSize
        => /\ (last'.op = "get" /\ last'.reput /\ ~last'.draw)
                => (last'.status = "OK" /\ last'.ghost_hit /\ last'.key \in S')
           /\ (last.op = "get" /\ last.reput
               /\ last'.op = "get" /\ last'.key = last.key)
                => last'.status = "OK"]_vars

\* the keys put so far
PutKeys == {k \in DOMAIN lastPut : lastPut[k] # EmptyValue}

C19_FailedAdmission ==
    [][(last'.op = "put" /\ last'.insert_failed)
        => (last'.status = "IOError" /\ UNCHANGED <<dbs, counters>>)]_vars

\* C19 witness: a put into a full main queue whose insert failed returned the
\* error and evicted nothing
C19_Witness ==
    /\ last.op = "put" /\ last.insert_failed /\ last.status = "IOError"
    /\ last.evicted = NoKey
    /\ M # {} /\ last.key \notin M
    /\ Footprint(M) + getAverageValueSize > main_size_

\* C20: main eviction removes M's FIFO-oldest entry: the victim is the key of
\* M that entered M first, and overwriting a key in M does not change its
\* position.  Stated on the puts whose backend calls all succeed.
C20_EvictsOldest ==
    (last.op = "put" /\ last.evicted # NoKey /\ ~last.fault)
        => last.evicted = last.oldest

\* C18: a failed promotion leaves the key in M: if the backend insert into S
\* fails during a get that decided to promote k, then get still returns OK
\* with the value, k remains in M, and the item counters are unchanged.
C18_FailedPromotion ==
    [][(last'.op = "get" /\ last'.promote /\ last'.insert_failed)
        => /\ last'.status = "OK"
           /\ last'.result = main_db_[last'.key]
           /\ last'.key \in M'
           /\ UNCHANGED counters]_vars

\* C17: construction validates its configuration: a cache built with
\* small_ratio outside (0, 1), ghost_ratio outside (0, 1] or total_size zero is
\* refused, so a cache that serves a put or a get has a valid configuration.
C17_ConfigValidated ==
    last.op # "none"
        => /\ 0 < small_ratio_ /\ small_ratio_ < 100
           /\ 0 < ghost_ratio_ /\ ghost_ratio_ <= 100
           /\ total_size_ > 0

\* the key of a key string in the running test
Key(s) == KeyOf(s, Names(script.name))

\* C13: paper example: with a capacity of 10 items (small_ratio 0.1,
\* ghost_ratio 0.1) and the promotion draw always succeeding, after put A, B,
\* C, get A, put D..J, put K: K is present, A is present with access count at
\* least 2, and J is in the ghost queue and in neither S nor M (get J misses).
C13_PaperExample ==
    LET A == Key(Letter(1))
        J == Key(Letter(ExampleItems))
        K == Key(Letter(ExampleItems + 1))
    IN  (script.name = "paper" /\ script.draw /\ script.pc = Len(PaperPuts)
         /\ total_size_ = ExampleItems * getAverageValueSize)
            => /\ K \in S \cup M
               /\ A \in S \cup M
               /\ Count(access_counts_, A) >= 2
                    \/ TrackedCount(access_tracker_, A) >= 2
               /\ J \in G /\ J \notin S \cup M

\* C14: scan resistance: A, B, C, made hot by interleaved puts and gets, remain
\* retrievable after a scan X1..Xn of keys put once and never read, also when
\* the scan is longer than the capacity of the 10-item cache: the gets of A, B
\* and C that follow the scan return OK.
C14_ScanResistance ==
    (script.name = "scan" /\ script.scan > ExampleItems
     /\ total_size_ = ExampleItems * getAverageValueSize
     /\ last.op = "get" /\ script.pc > Len(HotPhase) + script.scan)
        => last.status = "OK"

\* C16: under concurrent callers a put(k, v) followed by get(k) from the same
\* thread observes v unless an eviction removed k: no interleaving with
\* another thread's get(k) makes the later get miss or return another value.
\* Stated on the gets during which, and during the put before them, no
\* eviction deleted k and no other thread was in a put of k.
C16_ReadYourWrite ==
    \A t \in Threads :
        (threads[t].pc = "idle" /\ threads[t].op = "get"
         /\ threads[t].expect # EmptyValue)
            => (threads[t].status = "OK" /\ threads[t].result = threads[t].expect)

C22_EvictsOnlyOverBudget ==
    [][(last'.op = "put" /\ ~last'.fault
        /\ Footprint(M \cup {last'.key}) <= main_size_)
        => M \cup {last'.key} \subseteq M']_vars

\* C23: quick demotion: when a key k in S has an access count below
\* MIN_ACCESS_COUNT, the demotion step run by get(k) on an S hit moves it:
\* afterwards k is in M and absent from S.  Stated on the gets whose backend
\* calls all succeed, the count (in access_counts_ and in access_tracker_)
\* being below MIN_ACCESS_COUNT also after the get.
C23_QuickDemotion ==
    [][(last'.op = "get" /\ last'.hit = "S" /\ ~last'.fault
        /\ Count(access_counts_', last'.key) < MIN_ACCESS_COUNT
        /\ TrackedCount(access_tracker_', last'.key) < MIN_ACCESS_COUNT)
        => (last'.key \in M' /\ last'.key \notin S')]_vars

\* C24: in every state reachable by sequential puts and gets with a
\* non-failing backend, main_queue_items_ is at least the number of distinct
\* keys stored in M and small_queue_items_ is at least the number of distinct
\* keys stored in S: the counters never under-count and never wrap below zero.
C24_CountersNeverUnderCount ==
    /\ main_queue_items_ >= Cardinality(M)
    /\ small_queue_items_ >= Cardinality(S)

\* C24 witness: after overwrites and an eviction the main counter stands above
\* the number of keys M holds
C24_Witness ==
    /\ last.op = "put" /\ last.evicted # NoKey
    /\ M # {}
    /\ main_queue_items_ > Cardinality(M)
    /\ small_queue_items_ >= Cardinality(S)

\* C25: under concurrent gets a key is promoted from M to S at most once per
\* residence in M: two threads running get(k) in parallel on a key that
\* qualifies for promotion adjust the counters for a single move only, so
\* main_queue_items_ is not decremented below the number of keys in M and does
\* not wrap around zero.  Stated on the get that finishes its promotion of k
\* when k is in S and no longer in M and small_queue_items_ already counts
\* every key of S (the parallel get has moved k and counted the move): it
\* leaves both counters as they are.
C25_PromotedOnce ==
    [][\A t \in Threads :
        (/\ threads[t].pc = "promote_delete" /\ threads'[t].pc # "promote_delete"
         /\ threads[t].key \in S /\ threads[t].key \notin M
         /\ small_queue_items_ >= Cardinality(S))
            => /\ small_queue_items_' = small_queue_items_
               /\ main_queue_items_' = main_queue_items_]_vars

====
